---- MODULE Spec2Model ----
(***************************************************************************)
(* The unit algebra of skhep/units/units.py: class Unit and its subclasses *)
(* Millimeter, Millimeter2, Millimeter3, with the operators Unit defines.  *)
(*                                                                         *)
(* A value is a record [cls, mult].  cls is the Python class of the value  *)
(* ("Unit", "Millimeter", "Millimeter2", "Millimeter3" for instances of    *)
(* the unit classes, "float" for a plain number, "bool" for the result of  *)
(* a comparison) or the class of the exception an operation raised         *)
(* ("TypeError", "AttributeError", "ZeroDivisionError").  mult is the      *)
(* multiplier of a unit value, or the number itself for a plain number.    *)
(* Numbers are exact rationals <<n, d>> in lowest terms with d > 0: the    *)
(* model follows float arithmetic wherever it is exact and leaves floating *)
(* point rounding, overflow, infinities and NaN out.                       *)
(***************************************************************************)
EXTENDS Integers, Sequences, FiniteSets, TLC

VARIABLES
    a,      \* the current value: an input, or the result of the last kept operation
    prev,   \* the operation that produced a: [op, lhs, rhs], or NoOp for an input
    op,     \* the operation just evaluated, "none" when none is pending
    lhs,    \* its left operand (the only operand of a unary operation)
    rhs,    \* its right operand (Nil for a unary operation)
    res,    \* what it returned, or the exception it raised
    da,     \* ghost: net number of length factors multiplied into a
    dres    \* ghost: net number of length factors multiplied into res

vars == <<a, prev, op, lhs, rhs, res, da, dres>>

----------------------------------------------------------------------------
(* Bounds of the model *)

\* a kept result is carried on only while |numerator| <= MaxNum
MaxNum == 10
\* ... and denominator <= MaxDen
MaxDen == 2

----------------------------------------------------------------------------
(* Exact rational arithmetic standing for Python float arithmetic *)

AbsInt(n) == IF n < 0 THEN -n ELSE n

RECURSIVE GCD(_, _)
GCD(m, n) == IF n = 0 THEN m ELSE GCD(n, m % n)

\* the rational n/d (d # 0) in lowest terms with a positive denominator
Q(n, d) ==
    LET s == IF d < 0 THEN -1 ELSE 1
        g == GCD(AbsInt(n), AbsInt(d))
    IN  <<(s * n) \div g, (s * d) \div g>>

Zero == <<0, 1>>
One == <<1, 1>>

QMul(p, q) == Q(p[1] * q[1], p[2] * q[2])
QDiv(p, q) == Q(p[1] * q[2], p[2] * q[1])
QAdd(p, q) == Q(p[1] * q[2] + q[1] * p[2], p[2] * q[2])
QSub(p, q) == Q(p[1] * q[2] - q[1] * p[2], p[2] * q[2])
QNeg(p) == <<-p[1], p[2]>>
QAbs(p) == <<AbsInt(p[1]), p[2]>>

RECURSIVE Pow10(_)
Pow10(k) == IF k = 0 THEN 1 ELSE 10 * Pow10(k - 1)

\* Python 3 round(x, places): to the nearest multiple of 10^-places, ties to even
round(q, places) ==
    LET scale == Pow10(places)
        t == q[1] * scale
        fl == t \div q[2]
        r == t % q[2]
        k == IF 2 * r < q[2] THEN fl
             ELSE IF 2 * r > q[2] THEN fl + 1
             ELSE IF fl % 2 = 0 THEN fl ELSE fl + 1
    IN  Q(k, scale)

----------------------------------------------------------------------------
(* Classes and values *)

UnitClasses == {"Unit", "Millimeter", "Millimeter2", "Millimeter3"}
LadderClasses == {"Millimeter", "Millimeter2", "Millimeter3"}
ErrorClasses == {"TypeError", "AttributeError", "ZeroDivisionError"}

\* class Millimeter(Unit), Millimeter2(Unit), Millimeter3(Unit): each unit class
\* is a subclass of itself and of Unit; float is related to none of them
issubclass(c1, c2) == c1 = c2 \/ (c2 = "Unit" /\ c1 \in UnitClasses)

isinstance(v, c) == issubclass(v.cls, c)

\* Unit.__init__: an instance of class c with the given multiplier
New(c, m) == [cls |-> c, mult |-> m]

\* a plain number
Float(m) == [cls |-> "float", mult |-> m]

\* the result of a comparison
Bool(t) == [cls |-> "bool", mult |-> IF t THEN One ELSE Zero]

\* an exception of class e leaving the operation
Raise(e) == [cls |-> e, mult |-> Zero]

\* no operand
Nil == [cls |-> "None", mult |-> Zero]

IsUnit(v) == v.cls \in UnitClasses
IsFloat(v) == v.cls = "float"
IsError(v) == v.cls \in ErrorClasses

\* Unit.__str__ reads self.name, which Millimeter, Millimeter2 and Millimeter3
\* define and the base class Unit does not: formatting a bare Unit raises
\* AttributeError.  A float formats without error.
StrRaises(v) == v.cls = "Unit"

\* raise TypeError("... {0} ... {1}".format(x, y)): the message is formatted
\* before the TypeError exists, so a bare Unit operand turns it into the
\* AttributeError of __str__
RaiseTypeError(x, y) ==
    IF StrRaises(x) \/ StrRaises(y) THEN Raise("AttributeError") ELSE Raise("TypeError")

----------------------------------------------------------------------------
(* Unit.mul and Unit.div *)

\* faulty variant of mul_else: the fallback multiplies the two multipliers whatever
\* the right operand is
mul_else_product(one, two) ==
    IF ~IsUnit(one) THEN Raise("AttributeError")
    ELSE New(one.cls, QMul(one.mult, two.mult))

\* the else branch of Unit.mul: one.__class__(one.multiplier * float(two)),
\* evaluated left to right
mul_else(one, two) ==
    IF ~IsUnit(one) THEN Raise("AttributeError")        \* a float has no .multiplier
    ELSE IF ~IsFloat(two) THEN Raise("TypeError")       \* float(two): Unit has no __float__
    ELSE New(one.cls, QMul(one.mult, two.mult))

\* faulty variant of mul: the branch for Millimeter x Millimeter2 is missing
mul_asymmetric(one, two) ==
    IF IsError(one) THEN one
    ELSE IF IsError(two) THEN two
    ELSE IF isinstance(one, "Millimeter") /\ isinstance(two, "Millimeter")
        THEN New("Millimeter2", QMul(one.mult, two.mult))
    ELSE IF isinstance(one, "Millimeter2") /\ isinstance(two, "Millimeter")
        THEN New("Millimeter3", QMul(one.mult, two.mult))
    ELSE mul_else(one, two)

\* Unit.mul(one, two).  An exception raised while computing an argument
\* (the nested calls of __pow__) leaves through the call.
mul(one, two) ==
    IF IsError(one) THEN one
    ELSE IF IsError(two) THEN two
    ELSE IF isinstance(one, "Millimeter") /\ isinstance(two, "Millimeter")
        THEN New("Millimeter2", QMul(one.mult, two.mult))
    ELSE IF isinstance(one, "Millimeter") /\ isinstance(two, "Millimeter2")
        THEN New("Millimeter3", QMul(one.mult, two.mult))
    ELSE IF isinstance(one, "Millimeter2") /\ isinstance(two, "Millimeter")
        THEN New("Millimeter3", QMul(one.mult, two.mult))
    ELSE mul_else(one, two)

\* the else branch of Unit.div: one.__class__(one.multiplier / float(two)),
\* evaluated left to right
div_else(one, two) ==
    IF ~IsUnit(one) THEN Raise("AttributeError")
    ELSE IF ~IsFloat(two) THEN Raise("TypeError")
    ELSE IF two.mult = Zero THEN Raise("ZeroDivisionError")
    ELSE New(one.cls, QDiv(one.mult, two.mult))

\* the three length-ladder branches of Unit.div, then the else branch
div_ladder(one, two) ==
    IF isinstance(one, "Millimeter2") /\ isinstance(two, "Millimeter")
        THEN IF two.mult = Zero THEN Raise("ZeroDivisionError")
             ELSE New("Millimeter", QDiv(one.mult, two.mult))
    ELSE IF isinstance(one, "Millimeter3") /\ isinstance(two, "Millimeter")
        THEN IF two.mult = Zero THEN Raise("ZeroDivisionError")
             ELSE New("Millimeter2", QDiv(one.mult, two.mult))
    ELSE IF isinstance(one, "Millimeter3") /\ isinstance(two, "Millimeter2")
        THEN IF two.mult = Zero THEN Raise("ZeroDivisionError")
             ELSE New("Millimeter", QDiv(one.mult, two.mult))
    ELSE div_else(one, two)

\* faulty variant of div: the first test asks whether both operands are Units, not
\* whether their classes are related
div_any_unit(one, two) ==
    IF IsError(one) THEN one
    ELSE IF IsError(two) THEN two
    ELSE IF isinstance(one, "Unit") /\ isinstance(two, "Unit")
        THEN IF two.mult = Zero THEN Raise("ZeroDivisionError")
             ELSE Float(QDiv(one.mult, two.mult))
    ELSE div_ladder(one, two)

\* faulty variant of div: the test for related classes is missing, so a quotient of
\* two values of one class keeps the class
div_keeps_class(one, two) ==
    IF IsError(one) THEN one
    ELSE IF IsError(two) THEN two
    ELSE IF IsUnit(one) /\ IsUnit(two) /\ one.cls = two.cls
        THEN IF two.mult = Zero THEN Raise("ZeroDivisionError")
             ELSE New(one.cls, QDiv(one.mult, two.mult))
    ELSE div_ladder(one, two)

\* Unit.div(one, two)
div(one, two) ==
    IF IsError(one) THEN one
    ELSE IF IsError(two) THEN two
    ELSE IF issubclass(one.cls, two.cls) \/ issubclass(two.cls, one.cls)
        \* one.multiplier / two.multiplier, a plain number
        THEN IF ~IsUnit(one) \/ ~IsUnit(two) THEN Raise("AttributeError")
             ELSE IF two.mult = Zero THEN Raise("ZeroDivisionError")
             ELSE Float(QDiv(one.mult, two.mult))
    ELSE div_ladder(one, two)

----------------------------------------------------------------------------
(* The methods of class Unit.  The reflected methods are written in the    *)
(* source with their parameters named (other, self): the first parameter,  *)
(* other, is the Unit instance the method is called on (the right operand  *)
(* of the operator) and the second, self, is the left operand.             *)

__eq__(self, other) == isinstance(other, self.cls) /\ self.mult = other.mult

\* faulty variant of Eq: the left operand's __eq__ is always asked first
eq_left_first(l, r) == IF IsUnit(l) THEN __eq__(l, r) ELSE __eq__(r, l)

\* a == b as the interpreter evaluates it: when type(b) is a proper subclass of
\* type(a), b.__eq__(a) is asked first; a float on the left answers
\* NotImplemented for a Unit, and the Unit's __eq__ is asked.  Unit.__eq__ never
\* answers NotImplemented, so the first answer stands.
Eq(l, r) ==
    IF IsUnit(l) /\ IsUnit(r)
        THEN IF l.cls # r.cls /\ issubclass(r.cls, l.cls) THEN __eq__(r, l) ELSE __eq__(l, r)
    ELSE IF IsUnit(l) THEN __eq__(l, r)
    ELSE __eq__(r, l)

\* not self == other
__ne__(self, other) == ~Eq(self, other)

\* a != b, dispatched as a == b is
Ne(l, r) ==
    IF IsUnit(l) /\ IsUnit(r)
        THEN IF l.cls # r.cls /\ issubclass(r.cls, l.cls) THEN __ne__(r, l) ELSE __ne__(l, r)
    ELSE IF IsUnit(l) THEN __ne__(l, r)
    ELSE __ne__(r, l)

\* hash((self.__class__, self.multiplier)): the hash of the pair, which is
\* equal for equal pairs
__hash__(self) == <<self.cls, self.mult>>

__abs__(self) == New(self.cls, QAbs(self.mult))
__pos__(self) == self
__neg__(self) == New(self.cls, QNeg(self.mult))
__round__(self, places) == New(self.cls, round(self.mult, places))

\* faulty variant of __add__: the classes of the operands are not compared
add_unchecked(self, other) ==
    IF isinstance(other, "Unit") THEN New(self.cls, QAdd(self.mult, other.mult))
    ELSE RaiseTypeError(self, other)

__add__(self, other) ==
    IF isinstance(other, "Unit") /\ issubclass(other.cls, self.cls)
        THEN New(other.cls, QAdd(self.mult, other.mult))
    ELSE IF isinstance(other, "Unit") /\ issubclass(self.cls, other.cls)
        THEN New(self.cls, QAdd(self.mult, other.mult))
    ELSE RaiseTypeError(self, other)

__radd__(other, self) ==
    IF isinstance(other, "Unit") /\ issubclass(other.cls, self.cls)
        THEN New(other.cls, QAdd(self.mult, other.mult))
    ELSE IF isinstance(other, "Unit") /\ issubclass(self.cls, other.cls)
        THEN New(self.cls, QAdd(self.mult, other.mult))
    ELSE RaiseTypeError(self, other)

__sub__(self, other) ==
    IF isinstance(other, "Unit") /\ issubclass(other.cls, self.cls)
        THEN New(other.cls, QSub(self.mult, other.mult))
    ELSE IF isinstance(other, "Unit") /\ issubclass(self.cls, other.cls)
        THEN New(self.cls, QSub(self.mult, other.mult))
    ELSE RaiseTypeError(self, other)

__rsub__(other, self) ==
    IF isinstance(other, "Unit") /\ issubclass(other.cls, self.cls)
        THEN New(other.cls, QSub(self.mult, other.mult))
    ELSE IF isinstance(other, "Unit") /\ issubclass(self.cls, other.cls)
        THEN New(self.cls, QSub(self.mult, other.mult))
    ELSE RaiseTypeError(self, other)

__mul__(self, other) == mul(self, other)
\* faulty variant of __rmul__: the operands are passed on in the order of their names
rmul_swapped(other, self) == mul(self, other)

__rmul__(other, self) == mul(other, self)

\* other == 2 and round(other, 7) == 1.0/2.0 are false for every Unit other
\* (Unit.__eq__ with a number is false, and round(other, 7) is a Unit)
__pow__(self, other) ==
    IF IsFloat(other) /\ other.mult = <<2, 1>>
        THEN mul(self, self)
    ELSE IF IsFloat(other) /\ other.mult = <<3, 1>>
        THEN mul(mul(self, self), self)
    ELSE IF IsFloat(other) /\ other.mult = <<4, 1>>
        THEN mul(mul(mul(self, self), self), self)
    ELSE IF IsFloat(other) /\ round(other.mult, 7) = <<1, 2>>
        THEN div(self, self)
    ELSE IF IsFloat(other) /\ round(other.mult, 7) = <<1, 3>>
        THEN div(div(self, self), self)
    ELSE IF IsFloat(other) /\ round(other.mult, 7) = <<1, 4>>
        THEN div(div(div(self, self), self), self)
    ELSE RaiseTypeError(self, other)

__rpow__(other, self) == RaiseTypeError(self, other)

\* __div__ (Python 2) and __truediv__ (Python 3) have the same body
__truediv__(self, other) == div(self, other)
__rtruediv__(other, self) == div(self, other)

\* faulty variant of __floordiv__: floor division answered like true division
floordiv_as_div(self, other) == div(self, other)

__floordiv__(self, other) == RaiseTypeError(self, other)
__rfloordiv__(other, self) == RaiseTypeError(self, other)
__mod__(self, other) == RaiseTypeError(self, other)
__rmod__(other, self) == RaiseTypeError(self, other)
__divmod__(self, other) == RaiseTypeError(self, other)
__rdivmod__(other, self) == RaiseTypeError(self, other)

----------------------------------------------------------------------------
(* l <op> r as the interpreter dispatches it when at least one operand is  *)
(* a Unit: the method of the left operand when it is a Unit (no unit class *)
(* overrides a reflected method, so a subclass on the right gets no        *)
(* priority, and no Unit method answers NotImplemented); the reflected     *)
(* method of the right operand when the left one is a plain number.        *)

Add(l, r) == IF IsUnit(l) THEN __add__(l, r) ELSE __radd__(r, l)
Sub(l, r) == IF IsUnit(l) THEN __sub__(l, r) ELSE __rsub__(r, l)
Mul(l, r) == IF IsUnit(l) THEN __mul__(l, r) ELSE __rmul__(r, l)
TrueDiv(l, r) == IF IsUnit(l) THEN __truediv__(l, r) ELSE __rtruediv__(r, l)
FloorDiv(l, r) == IF IsUnit(l) THEN __floordiv__(l, r) ELSE __rfloordiv__(r, l)
Mod(l, r) == IF IsUnit(l) THEN __mod__(l, r) ELSE __rmod__(r, l)
DivMod(l, r) == IF IsUnit(l) THEN __divmod__(l, r) ELSE __rdivmod__(r, l)
Pow(l, r) == IF IsUnit(l) THEN __pow__(l, r) ELSE __rpow__(r, l)

----------------------------------------------------------------------------
(* Inputs *)

\* multipliers of the values the operations start from: 1.0 (a base unit),
\* 10.0 (centimeter), a negative non-integer, and 0.0
Mults == {<<0, 1>>, <<1, 1>>, <<10, 1>>, <<-3, 2>>}

\* unit values of the three length classes, and plain numbers
LadderInputs ==
    {New(c, m) : c \in LadderClasses, m \in Mults} \cup {Float(m) : m \in Mults}

\* ... and instances of the base class Unit itself
Inputs == LadderInputs \cup {New("Unit", m) : m \in Mults}

\* exponents offered to **: the six __pow__ tests for, and others
Exponents ==
    {Float(q) : q \in {<<2, 1>>, <<3, 1>>, <<4, 1>>, <<1, 2>>, <<1, 3>>, <<1, 4>>,
                       <<0, 1>>, <<1, 1>>, <<5, 1>>, <<-1, 1>>}}

\* digits offered to round(u, places)
Places == {0, 1}

InRange(q) == AbsInt(q[1]) <= MaxNum /\ q[2] <= MaxDen

NoOp == [op |-> "none", lhs |-> Nil, rhs |-> Nil]

----------------------------------------------------------------------------
(* Ghost: the net number of length factors of a value.  An input has the   *)
(* exponent of its class; a result has what the operation does to the      *)
(* counts of its operands: * adds them, / subtracts them, + and - keep the *)
(* count, ** is the chain of * or / that __pow__ applies, the unary        *)
(* operations keep the count.                                              *)

Exponent(c) ==
    CASE c = "Millimeter" -> 1
      [] c = "Millimeter2" -> 2
      [] c = "Millimeter3" -> 3
      [] OTHER -> 0

DimPow(dl, r) ==
    IF ~IsFloat(r) THEN dl
    ELSE IF r.mult = <<2, 1>> THEN dl + dl
    ELSE IF r.mult = <<3, 1>> THEN (dl + dl) + dl
    ELSE IF r.mult = <<4, 1>> THEN ((dl + dl) + dl) + dl
    ELSE IF round(r.mult, 7) = <<1, 2>> THEN dl - dl
    ELSE IF round(r.mult, 7) = <<1, 3>> THEN (dl - dl) - dl
    ELSE IF round(r.mult, 7) = <<1, 4>> THEN ((dl - dl) - dl) - dl
    ELSE dl

ResDim(name, r, dl, dr) ==
    CASE name = "mul" -> dl + dr
      [] name = "truediv" -> dl - dr
      [] name = "pow" -> DimPow(dl, r)
      [] name \in {"add", "sub", "neg", "abs", "pos", "round"} -> dl
      [] OTHER -> 0

----------------------------------------------------------------------------
(* The state machine: a caller evaluates one operation on the current      *)
(* value a and an input v, in either order, and then keeps the result as   *)
(* the new current value or drops it.                                      *)

Init ==
    /\ a \in Inputs
    /\ prev = NoOp
    /\ op = "none" /\ lhs = Nil /\ rhs = Nil /\ res = Nil
    /\ da = Exponent(a.cls)
    /\ dres = 0

InitLadder == Init /\ a \in LadderInputs

\* the operation name on operands l, r returned result
Evaluated(name, l, r, result, dl, dr) ==
    /\ op = "none"
    /\ op' = name /\ lhs' = l /\ rhs' = r /\ res' = result
    /\ dres' = ResDim(name, r, dl, dr)
    /\ UNCHANGED <<a, prev, da>>

\* what the operator name returns on l and r
Apply(name, l, r) ==
    CASE name = "add" -> Add(l, r)
      [] name = "sub" -> Sub(l, r)
      [] name = "mul" -> Mul(l, r)
      [] name = "truediv" -> TrueDiv(l, r)
      [] name = "floordiv" -> FloorDiv(l, r)
      [] name = "mod" -> Mod(l, r)
      [] name = "divmod" -> DivMod(l, r)
      [] name = "pow" -> Pow(l, r)
      [] name = "eq" -> Bool(Eq(l, r))
      [] name = "ne" -> Bool(Ne(l, r))

\* l <op> r with at least one Unit operand, a on the left or on the right
Binary(name, S) ==
    /\ op = "none"
    /\ \E v \in S, swap \in BOOLEAN :
        LET l == IF swap THEN v ELSE a
            r == IF swap THEN a ELSE v
            dl == IF swap THEN Exponent(v.cls) ELSE da
            dr == IF swap THEN da ELSE Exponent(v.cls)
        IN  /\ IsUnit(l) \/ IsUnit(r)
            /\ Evaluated(name, l, r, Apply(name, l, r), dl, dr)

DoAdd(S) == Binary("add", S)
DoSub(S) == Binary("sub", S)
DoMul(S) == Binary("mul", S)
DoTrueDiv(S) == Binary("truediv", S)
DoFloorDiv(S) == Binary("floordiv", S)
DoMod(S) == Binary("mod", S)
DoDivMod(S) == Binary("divmod", S)
DoPow(S) == Binary("pow", S \cup Exponents)
DoEq(S) == Binary("eq", S)
DoNe(S) == Binary("ne", S)

DoNeg == op = "none" /\ IsUnit(a) /\ Evaluated("neg", a, Nil, __neg__(a), da, 0)
DoAbs == op = "none" /\ IsUnit(a) /\ Evaluated("abs", a, Nil, __abs__(a), da, 0)
DoPos == op = "none" /\ IsUnit(a) /\ Evaluated("pos", a, Nil, __pos__(a), da, 0)
DoRound ==
    /\ op = "none"
    /\ IsUnit(a)
    /\ \E places \in Places :
        Evaluated("round", a, Float(<<places, 1>>), __round__(a, places), da, 0)

\* the result of an operation on an input becomes the current value; prev
\* remembers the operation it came from
Keep ==
    /\ op # "none"
    /\ prev = NoOp
    /\ IsUnit(res) \/ IsFloat(res)
    /\ a' = res /\ da' = dres
    /\ prev' = [op |-> op, lhs |-> lhs, rhs |-> rhs]
    /\ op' = "none" /\ lhs' = Nil /\ rhs' = Nil /\ res' = Nil /\ dres' = 0

\* the result becomes the current value of a longer computation, whose
\* earlier operations are not remembered
Chain ==
    /\ op # "none"
    /\ IsUnit(res) \/ IsFloat(res)
    /\ InRange(res.mult)
    /\ a' = res /\ da' = dres
    /\ prev' = NoOp
    /\ op' = "none" /\ lhs' = Nil /\ rhs' = Nil /\ res' = Nil /\ dres' = 0

\* the result (or the exception) is dropped; the current value stays
Drop ==
    /\ op # "none"
    /\ op' = "none" /\ lhs' = Nil /\ rhs' = Nil /\ res' = Nil /\ dres' = 0
    /\ UNCHANGED <<a, prev, da>>

\* start again from an input
Load(S) ==
    /\ op = "none"
    /\ a' \in S /\ da' = Exponent(a'.cls)
    /\ prev' = NoOp
    /\ UNCHANGED <<op, lhs, rhs, res, dres>>

Operation(S) ==
    \/ DoAdd(S) \/ DoSub(S) \/ DoMul(S) \/ DoTrueDiv(S)
    \/ DoFloorDiv(S) \/ DoMod(S) \/ DoDivMod(S) \/ DoPow(S)
    \/ DoEq(S) \/ DoNe(S)
    \/ DoNeg \/ DoAbs \/ DoPos \/ DoRound

Next == Operation(Inputs) \/ Keep \/ Drop \/ Load(Inputs)
NextLadder == Operation(LadderInputs) \/ Chain \/ Drop \/ Load(LadderInputs)

\* every class of value, the base class Unit included
Spec == Init /\ [][Next]_vars

\* only the three length classes and plain numbers
SpecLadder == InitLadder /\ [][NextLadder]_vars

----------------------------------------------------------------------------
(* Properties *)

MM == "Millimeter"
MM2 == "Millimeter2"
MM3 == "Millimeter3"

Ladder(v) == v.cls \in LadderClasses
BareUnit(v) == v.cls = "Unit"

C2_Scalar ==
    /\ (op = "mul" /\ IsUnit(lhs) /\ IsFloat(rhs)
            => res = New(lhs.cls, QMul(lhs.mult, rhs.mult)))
    /\ (op = "mul" /\ IsFloat(lhs) /\ IsUnit(rhs)
            => /\ res = New(rhs.cls, QMul(rhs.mult, lhs.mult))
               /\ (rhs.mult = One => res.mult = lhs.mult))
    /\ (op = "truediv" /\ IsUnit(lhs) /\ IsFloat(rhs) /\ rhs.mult # Zero
            => res = New(lhs.cls, QDiv(lhs.mult, rhs.mult)))

\* 10.0 * millimeter2 is Millimeter2(10.0)
C2_Witness ==
    /\ op = "mul"
    /\ lhs = Float(<<10, 1>>) /\ rhs = New(MM2, One)
    /\ res = New(MM2, <<10, 1>>)

\* C3: for Length values x and y, x * y is a Length2 with the product of the
\* multipliers, and (x * y) * x and x * (x * y) are both the Length3 whose
\* multiplier is the product of the three multipliers.
C3_Ladder ==
    /\ (op = "mul" /\ lhs.cls = MM /\ rhs.cls = MM
            => res = New(MM2, QMul(lhs.mult, rhs.mult)))
    /\ (op = "mul" /\ prev.op = "mul"
            /\ prev.lhs.cls = MM /\ prev.rhs.cls = MM
            /\ ((lhs = a /\ rhs = prev.lhs) \/ (lhs = prev.lhs /\ rhs = a))
            => res = New(MM3, QMul(QMul(prev.lhs.mult, prev.rhs.mult), prev.lhs.mult)))

\* x * (x * y) for x = 10 mm, y = -1.5 mm
C3_Witness ==
    /\ prev.op = "mul"
    /\ prev.lhs = New(MM, <<10, 1>>) /\ prev.rhs = New(MM, <<-3, 2>>)
    /\ op = "mul" /\ lhs = prev.lhs /\ rhs = a
    /\ res = New(MM3, <<-150, 1>>)

\* C4: with x, y, z Length values of nonzero multiplier: (x * x) / x == x;
\* (x * y) / y is a Length with x's multiplier; (x * y * z) / z is a Length2;
\* (x * y * z) / (y * z) is a Length with x's multiplier.  The current value a
\* is prev.lhs * prev.rhs; in the last two cases prev.lhs is the Length2 x * y.
C4_DivInverts ==
    (op = "truediv" /\ prev.op = "mul" /\ lhs = a
        /\ prev.lhs.mult # Zero /\ prev.rhs.mult # Zero) =>
        /\ (prev.lhs.cls = MM /\ prev.rhs.cls = MM /\ rhs = prev.rhs
                => /\ res = New(MM, prev.lhs.mult)
                   /\ (prev.lhs = prev.rhs => Eq(res, prev.lhs) /\ Eq(prev.lhs, res)))
        /\ \A x, y \in {v \in Inputs : v.cls = MM} :
            (prev.lhs = Mul(x, y) /\ prev.rhs.cls = MM) =>
                /\ (rhs = prev.rhs => res = New(MM2, QMul(x.mult, y.mult)))
                /\ (rhs = Mul(y, prev.rhs) => res = New(MM, x.mult))

\* (x * y * z) / (y * z) for x = 10 mm, y = 1 mm, z = 10 mm
C4_Witness ==
    /\ prev.op = "mul"
    /\ prev.lhs = Mul(New(MM, <<10, 1>>), New(MM, One)) /\ prev.rhs = New(MM, <<10, 1>>)
    /\ op = "truediv" /\ lhs = a
    /\ rhs = Mul(New(MM, One), New(MM, <<10, 1>>))
    /\ res = New(MM, <<10, 1>>)

\* C5: a / b for unit values of one class, b.multiplier nonzero, is the plain
\* number a.multiplier / b.multiplier; so (k * u) / u is the plain number k
\* for a Length u of nonzero multiplier.
C5_Ratio ==
    /\ (op = "truediv" /\ IsUnit(lhs) /\ IsUnit(rhs) /\ lhs.cls = rhs.cls /\ rhs.mult # Zero
            => res = Float(QDiv(lhs.mult, rhs.mult)))
    /\ (op = "truediv" /\ prev.op = "mul" /\ lhs = a
            /\ IsFloat(prev.lhs) /\ Ladder(prev.rhs) /\ prev.rhs.mult # Zero
            /\ rhs = prev.rhs
            => res = prev.lhs)

\* (10.0 * u) / u for u = -1.5 mm
C5_Witness ==
    /\ prev.op = "mul"
    /\ prev.lhs = Float(<<10, 1>>) /\ prev.rhs = New(MM, <<-3, 2>>)
    /\ op = "truediv" /\ lhs = a /\ rhs = prev.rhs
    /\ res = Float(<<10, 1>>)

\* the class pairs Unit.mul and Unit.div treat by a branch of their own
MulLadderPairs == {<<MM, MM>>, <<MM, MM2>>, <<MM2, MM>>}
DivLadderPairs == {<<MM2, MM>>, <<MM3, MM>>, <<MM3, MM2>>}

\* C6: for length values a and b whose class pair has no branch of its own,
\* a * b is a unit value of a's class with multiplier a.multiplier *
\* b.multiplier, and a / b (classes different, b.multiplier nonzero) is a unit
\* value of a's class with multiplier a.multiplier / b.multiplier.
C6_Fallback ==
    /\ (op = "mul" /\ Ladder(lhs) /\ Ladder(rhs) /\ <<lhs.cls, rhs.cls>> \notin MulLadderPairs
            => res = New(lhs.cls, QMul(lhs.mult, rhs.mult)))
    /\ (op = "truediv" /\ Ladder(lhs) /\ Ladder(rhs) /\ lhs.cls # rhs.cls
            /\ <<lhs.cls, rhs.cls>> \notin DivLadderPairs /\ rhs.mult # Zero
            => res = New(lhs.cls, QDiv(lhs.mult, rhs.mult)))

\* the exponents u ** p is said to be defined for
SupportedExponents == {<<2, 1>>, <<3, 1>>, <<4, 1>>, <<1, 2>>, <<1, 3>>, <<1, 4>>}

\* C7: u ** p for a length value u of nonzero multiplier returns a value and
\* raises nothing for every p in {2, 3, 4, 1/2, 1/3, 1/4}; it raises TypeError
\* for every other plain number p; p ** u raises TypeError.
C7_Pow ==
    /\ (op = "pow" /\ Ladder(lhs) /\ lhs.mult # Zero /\ IsFloat(rhs)
            => IF rhs.mult \in SupportedExponents
                   THEN IsUnit(res) \/ IsFloat(res)
                   ELSE res = Raise("TypeError"))
    /\ (op = "pow" /\ IsFloat(lhs) /\ Ladder(rhs) => res = Raise("TypeError"))

C9_EqHash ==
    LET same == lhs.cls = rhs.cls /\ lhs.mult = rhs.mult
    IN  /\ (op = "eq" /\ IsUnit(lhs) /\ IsUnit(rhs)
                => /\ res = Bool(same)
                   /\ res = Bool(Eq(rhs, lhs))
                   /\ (res = Bool(TRUE) => __hash__(lhs) = __hash__(rhs)))
        /\ (op = "ne" /\ IsUnit(lhs) /\ IsUnit(rhs)
                => /\ res = Bool(~same)
                   /\ res = Bool(~Eq(lhs, rhs)))

\* Unit(10.0) == Millimeter(10.0) is false
C9_Witness ==
    /\ op = "eq"
    /\ lhs = New("Unit", <<10, 1>>) /\ rhs = New(MM, <<10, 1>>)
    /\ res = Bool(FALSE)

\* value v agrees with a count d of net length factors
Agrees(v, d) ==
    /\ IsUnit(v) => Ladder(v) /\ d = Exponent(v.cls)
    /\ IsFloat(v) => d = 0

====
